---------------------------- MODULE Spec2Model ----------------------------
(***************************************************************************)
(* Model of Resume.py: the LaTeX sanitizer, the section builders, the AI    *)
(* edit applier, the template renderer, the document compiler, the         *)
(* generation, tailoring and batch workflows and the job tracker.          *)
(*                                                                         *)
(* A Python str is a sequence of one-character strings, except where only  *)
(* equality of whole texts matters (summary and accomplishment texts in    *)
(* apply_ai_edits), where a text is one TLA+ string.  A Python dict is a    *)
(* function whose DOMAIN is the set of keys present.                       *)
(***************************************************************************)
EXTENDS Integers, Sequences, FiniteSets, TLC

VARIABLES
    pc,              \* position of the program: which call is in progress
    text,            \* sanitize_for_latex: the argument
    sanitized,       \* sanitize_for_latex: the value returned
    data,            \* build_experience_section: the argument
    experience_str,  \* build_experience_section: the value returned
    dicts,           \* heap: the profile dict objects, by address
    lists,           \* heap: the accomplishments list objects, by address
    resume_data,     \* apply_ai_edits: the argument (address of a dict)
    editable_resume, \* apply_ai_edits: the working copy (address of a dict)
    edit,            \* apply_ai_edits: the loop variable
    printed,         \* apply_ai_edits: what the last iteration printed
    n_edits,         \* apply_ai_edits: how many edits the loop has taken
    before,          \* history: the argument's value when the call started
    fs,              \* the files of the output directory, as <<base, extension>>
    events,          \* what the call in progress did to the outside world, in order
    result,          \* the value returned by the document call in progress
    raised,          \* the exception that left the call in progress, "" for none
    env,             \* what the outside world answers to the call in progress
    filename_base,   \* compile_latex_to_pdf, generation_workflow: the base name
    tracker,         \* job_tracker.json: the list of applications stored
    applications,    \* batch_resume_workflow: the list loaded from the tracker
    unprocessed_apps, \* batch_resume_workflow: positions in applications
    todo,            \* batch_resume_workflow: the selected strings not yet processed
    n_ops,           \* how many tracker operations have been started
    loaded_profile,  \* batch_resume_workflow: what load_profile returned
    contacts,        \* networking_log.json: the list of contacts stored
    n_calls          \* how many direct calls of check_and_add_contact were made

document_vars == <<fs, events, result, raised, env, filename_base>>

tracker_vars == <<tracker, applications, unprocessed_apps, todo, n_ops, loaded_profile>>

contact_vars == <<contacts, n_calls>>

vars == <<pc, text, sanitized, data, experience_str, dicts, lists, resume_data,
          editable_resume, edit, printed, n_edits, before, document_vars,
          tracker_vars, contact_vars>>

\* Python's None where a str is expected: a sequence that is no sequence of
\* characters.
None == <<"None">>

-----------------------------------------------------------------------------
(* Sequences of characters *)

RECURSIVE Flatten(_)
Flatten(ss) == IF ss = <<>> THEN <<>> ELSE Head(ss) \o Flatten(Tail(ss))

\* s occurs in t starting at position i (1-based).
StartsWithAt(t, i, s) ==
    /\ i + Len(s) - 1 <= Len(t)
    /\ \A k \in 1..Len(s) : t[i + k - 1] = s[k]

\* A local variable: v is evaluated once and Body applied to its value.
Once(v, Body(_)) == CHOOSE r \in {Body(x) : x \in {v}} : TRUE

\* All sequences over S of length at most n.
SeqsUpTo(S, n) == UNION {[1..k -> S] : k \in 0..n}

-----------------------------------------------------------------------------
(* sanitize_for_latex *)

BS == "\\"

\* The keys of conv in the order the dict literal lists them.
conv_keys == <<"&", "%", "$", "#", "_", "{", "}", "~", "^", BS>>

conv ==
    [c \in {conv_keys[k] : k \in 1..Len(conv_keys)} |->
        CASE c = "&" -> <<BS, "&">>
          [] c = "%" -> <<BS, "%">>
          [] c = "$" -> <<BS, "$">>
          [] c = "#" -> <<BS, "#">>
          [] c = "_" -> <<BS, "_">>
          [] c = "{" -> <<BS, "{">>
          [] c = "}" -> <<BS, "}">>
          [] c = "~" -> <<BS, "t", "e", "x", "t", "a", "s", "c", "i", "i",
                          "t", "i", "l", "d", "e", "{", "}">>
          [] c = "^" -> <<BS, "t", "e", "x", "t", "a", "s", "c", "i", "i",
                          "c", "i", "r", "c", "u", "m", "{", "}">>
          [] c = BS  -> <<BS, "t", "e", "x", "t", "b", "a", "c", "k",
                          "s", "l", "a", "s", "h", "{", "}">>]

\* sorted(conv.keys(), key=len, reverse=True): a stable sort of one-character
\* keys, so the order of the dict is kept.  Each key is a sequence of characters.
sorted_keys == [k \in 1..Len(conv_keys) |-> <<conv_keys[k]>>]

\* The alternation key1|key2|...: the first alternative, in order, that matches
\* at position i; 0 when none does.
regex_match(alts, t, i) ==
    LET hits == {k \in 1..Len(alts) : StartsWithAt(t, i, alts[k])}
    IN  IF hits = {} THEN 0 ELSE CHOOSE k \in hits : \A j \in hits : k <= j

\* regex.sub(lambda match: conv[match.group()], text): one scan from the left;
\* a match is replaced and the scan resumes after it, any other character is
\* copied.
RECURSIVE regex_sub(_, _, _)
regex_sub(alts, t, i) ==
    IF i > Len(t) THEN <<>>
    ELSE LET k == regex_match(alts, t, i)
         IN  IF k = 0
             THEN <<t[i]>> \o regex_sub(alts, t, i + 1)
             ELSE conv[alts[k][1]] \o regex_sub(alts, t, i + Len(alts[k]))

\* str.replace(old, new) for a one-character old.
str_replace_char(t, old, new) ==
    Flatten([k \in 1..Len(t) |-> IF t[k] = old THEN new ELSE <<t[k]>>])

\* A sanitizer that replaces one key after the other over the whole string.
RECURSIVE replace_each(_, _)
replace_each(t, k) ==
    IF k > Len(conv_keys) THEN t
    ELSE replace_each(str_replace_char(t, conv_keys[k], conv[conv_keys[k]]), k + 1)

sanitize_by_successive_replace(t) ==
    IF t = None \/ t = <<>> THEN <<>> ELSE replace_each(t, 1)

sanitize_for_latex(t) ==
    IF t = None \/ t = <<>> THEN <<>> ELSE regex_sub(sorted_keys, t, 1)

-----------------------------------------------------------------------------
(* build_experience_section *)

\* The value returned is a sequence of pieces: every literal part of a string
\* literal or f-string of the function is one piece (a string of several
\* characters), and every character of an embedded field is one piece.  The
\* Python str returned is the concatenation of the pieces.

SectionHead ==
    "\\section*{Professional Experience}\n\\begin{itemize}[leftmargin=0.15in, label={}]\n"
ItemHead ==
    "  \\item\n    \\begin{tabular*}{\\textwidth}{@{\\extracolsep{\\fill}}l r}\n      \\textbf{\\large "
AfterTitle == "} & {\\small "
AfterDates == "} \\\\\n      \\textit{\\small "
AfterCompany == "} & \\textit{\\small "
AfterLocation == "} \\\\\n    \\end{tabular*}\\vspace{-2pt}\n"
AccBegin == "    \\begin{itemize}[leftmargin=0.2in, topsep=0pt, itemsep=-2pt]\n"
AccItem == "      \\item \\small{"
AccItemEnd == "}\n"
AccEnd == "    \\end{itemize}\n"
SectionEnd == "\\end{itemize}\n\n"

\* str.replace(old, new): occurrences of old are replaced from the left, without
\* overlap.
RECURSIVE str_replace(_, _, _, _)
str_replace(t, old, new, i) ==
    IF i > Len(t) THEN <<>>
    ELSE IF StartsWithAt(t, i, old)
         THEN new \o str_replace(t, old, new, i + Len(old))
         ELSE <<t[i]>> \o str_replace(t, old, new, i + 1)

\* dict.get(key, ''): the value, or the empty string when the key is absent.
get(d, key) == IF key \in DOMAIN d THEN d[key] ELSE <<>>

\* not v, for a list v.
empty(v) == Len(v) = 0

\* title = sanitize_for_latex(entry.get('title', ''))
\* title = title.replace('\\textbackslash{}', '/')
entry_title(entry) ==
    str_replace(sanitize_for_latex(get(entry, "title")), conv[BS], <<"/">>, 1)

\* A field embedded as it is stored.
raw_field(entry, key) == get(entry, key)

entry_field(entry, key) == sanitize_for_latex(get(entry, key))

\* sanitize_for_latex(acc).replace('\\textbackslash{}\\%', '\\%')
sanitized_acc(acc) ==
    str_replace(sanitize_for_latex(acc), conv[BS] \o conv["%"], conv["%"], 1)

\* The inner loop: one line per accomplishment.
acc_lines(accs) ==
    Flatten([j \in 1..Len(accs) |-> <<AccItem>> \o sanitized_acc(accs[j]) \o <<AccItemEnd>>])

\* One iteration of the outer loop: what it appends to experience_str.
entry_block(entry) ==
    <<ItemHead>> \o entry_title(entry)
        \o <<AfterTitle>> \o entry_field(entry, "dates")
        \o <<AfterDates>> \o entry_field(entry, "company")
        \o <<AfterCompany>> \o entry_field(entry, "location")
        \o <<AfterLocation>>
        \o (IF "accomplishments" \in DOMAIN entry /\ ~empty(entry["accomplishments"])
            THEN <<AccBegin>> \o acc_lines(entry["accomplishments"]) \o <<AccEnd>>
            ELSE <<>>)

\* A guard that only looks for the key.
experience_key_missing(d) == "experience" \notin DOMAIN d

\* not data.get("experience")
no_experience(d) == "experience" \notin DOMAIN d \/ empty(d["experience"])

build_experience_section(d) ==
    IF no_experience(d) THEN <<>>
    ELSE <<SectionHead>>
            \o Flatten([k \in 1..Len(d["experience"]) |-> entry_block(d["experience"][k])])
            \o <<SectionEnd>>

-----------------------------------------------------------------------------
(* apply_ai_edits *)

\* The heap.  dicts[a] is the profile dict at address a: its summary and its
\* experience list, whose entries name their accomplishments list by address;
\* lists[a] is the accomplishments list at address a.  The experience list and
\* the entry dicts are not written by apply_ai_edits and are kept by value.

\* The value of the profile at address ref: its summary and the accomplishments
\* of each entry.
ValueOf(ds, ls, ref) ==
    [summary |-> ds[ref]["summary"],
     experience |-> [k \in 1..Len(ds[ref]["experience"]) |->
                        ls[ds[ref]["experience"][k]["accomplishments"]]]]

\* copy.copy(resume_data): a new dict whose values are the objects of the old one.
shallow_copy(ds, ls, src) ==
    [dicts |-> Append(ds, ds[src]), lists |-> ls, ref |-> Len(ds) + 1]

\* The entry dict of an experience entry whose accomplishments list is at
\* address a; the other values are not looked into and stand for themselves.
entry_at(a) ==
    [title |-> "job", company |-> "company", location |-> "location",
     dates |-> "dates", accomplishments |-> a]

\* A copy that takes over only the two keys the loop writes to.
copy_of_edited_keys(ds, ls, src) ==
    LET exp == ds[src]["experience"]
        copied == [k \in 1..Len(exp) |->
                      [exp[k] EXCEPT !["accomplishments"] = Len(ls) + k]]
    IN  [dicts |-> Append(ds, [summary |-> ds[src]["summary"], experience |-> copied]),
         lists |-> ls \o [k \in 1..Len(exp) |-> ls[exp[k]["accomplishments"]]],
         ref   |-> Len(ds) + 1]

\* copy.deepcopy(resume_data): a new dict and a new list for every list reached.
deepcopy(ds, ls, src) ==
    LET exp == ds[src]["experience"]
        copied == [k \in 1..Len(exp) |->
                      [exp[k] EXCEPT !["accomplishments"] = Len(ls) + k]]
    IN  [dicts |-> Append(ds, [ds[src] EXCEPT !["experience"] = copied]),
         lists |-> ls \o [k \in 1..Len(exp) |-> ls[exp[k]["accomplishments"]]],
         ref   |-> Len(ds) + 1]

\* A comparison that always succeeds.
always_equal(a, b) == TRUE

\* editable_resume.get('summary', '') == edit['original_text']
summary_matches(current, original_text) == current = original_text

\* The profile a summary edit is compared with, read from the argument.
summary_of_argument(ds, arg, copy) == ds[arg]["summary"]

\* editable_resume.get('summary', ''): read from the working copy.
current_summary(ds, arg, copy) == ds[copy]["summary"]

\* The place of the last element equal to x.
list_rindex(l, x) == CHOOSE i \in 1..Len(l) : l[i] = x /\ \A j \in (i + 1)..Len(l) : l[j] # x

\* list.index(x): the place (1-based) of the first element equal to x.
list_index(l, x) == CHOOSE i \in 1..Len(l) : l[i] = x /\ \A j \in 1..(i - 1) : l[j] # x

\* x in l
contains(l, x) == \E i \in 1..Len(l) : l[i] = x

\* l[i] for a list of length len and a Python int i: the 1-based place read,
\* counting from the end when i is negative; 0 stands for IndexError.
list_place(len, i) ==
    IF 0 <= i /\ i < len THEN i + 1
    ELSE IF -len <= i /\ i < 0 THEN len + i + 1
    ELSE 0

\* The body of the loop for one edit: the heap it leaves, what it prints, and
\* the exception it ends with ("" when none).  KeyError and IndexError are
\* caught by the except clause, which prints and continues; any other
\* exception leaves the function.
process_edit(ds, ls, arg, copy, e) ==
    LET end(newds, newls, out, exc) ==
            [dicts |-> newds, lists |-> newls, printed |-> out, raised |-> exc]
        caught(exc) == end(ds, ls, "mismatch", exc)
    IN  IF "section" \notin DOMAIN e THEN caught("KeyError")
        ELSE IF e["section"] = "summary" THEN
            IF "original_text" \notin DOMAIN e THEN caught("KeyError")
            ELSE IF ~summary_matches(current_summary(ds, arg, copy), e["original_text"])
                 THEN end(ds, ls, "nothing", "")
            ELSE IF "suggested_text" \notin DOMAIN e THEN caught("KeyError")
            ELSE end([ds EXCEPT ![copy]["summary"] = e["suggested_text"]], ls, "summary", "")
        ELSE IF e["section"] = "experience" THEN
            IF "entry_index" \notin DOMAIN e THEN caught("KeyError")
            ELSE IF "int" \notin DOMAIN e["entry_index"] THEN end(ds, ls, "nothing", "TypeError")
            ELSE LET place == list_place(Len(ds[copy]["experience"]), e["entry_index"]["int"])
                 IN  IF place = 0 THEN caught("IndexError")
                     ELSE LET accomplishments == ds[copy]["experience"][place]["accomplishments"]
                          IN  IF "original_text" \notin DOMAIN e THEN caught("KeyError")
                              ELSE IF ~contains(ls[accomplishments], e["original_text"])
                                   THEN end(ds, ls, "nothing", "")
                              ELSE IF "suggested_text" \notin DOMAIN e THEN caught("KeyError")
                              ELSE end(ds,
                                       [ls EXCEPT ![accomplishments]
                                                   [list_index(ls[accomplishments], e["original_text"])]
                                                   = e["suggested_text"]],
                                       "accomplishment", "")
        ELSE end(ds, ls, "nothing", "")

-----------------------------------------------------------------------------
(* Inputs *)

MaxLen == 2

\* Every reserved character and two plain ones.
Alphabet == {conv_keys[k] : k \in 1..Len(conv_keys)} \cup {"a", "t"}

Texts == SeqsUpTo(Alphabet, MaxLen) \cup {None}

MaxBlocks == 2

Titles == {<<"a">>, <<BS, "b">>}
AccTexts == {<<"x">>, <<BS, "%">>}
AccLists == {<<>>} \cup {<<a>> : a \in AccTexts} \cup {<<a, b>> : a, b \in AccTexts}

\* Experience entries as build_experience_section reads them: complete ones, one
\* without accomplishments and one with no key at all.
Entries ==
    [title : Titles, dates : {<<"1">>}, company : {<<"&">>}, location : {<<"c">>},
     accomplishments : AccLists]
    \cup {[title |-> <<"a">>, company |-> <<"c">>], <<>>}

Profiles ==
    {<<>>}
    \cup {[experience |-> e] : e \in SeqsUpTo(Entries, MaxBlocks)}

MaxEntries == 2
MaxEdits == 2

Summaries == {"A", "B"}
AccChoices == {<<"A", "B">>, <<"B", "A", "A">>}

\* Profiles as apply_ai_edits reads them: the summary and the accomplishments
\* of each experience entry.
ResumeProfiles ==
    [summary : Summaries, experience : SeqsUpTo(AccChoices, MaxEntries)]

\* An entry_index as json.loads gives it: an int, in or out of range, or a str.
IndexValues ==
    {[int |-> i] : i \in (-(MaxEntries + 1))..MaxEntries} \cup {[str |-> "0"]}

Keys == {"section", "entry_index", "field", "original_text", "suggested_text"}

Without(e, key) == [k \in DOMAIN e \ {key} |-> e[k]]

SummaryEdits ==
    [section : {"summary"}, entry_index : {[int |-> 0]}, field : {"summary"},
     original_text : {"A", "B"}, suggested_text : {"B", "C"}]

ExperienceEdits ==
    [section : {"experience"}, entry_index : IndexValues, field : {"accomplishments"},
     original_text : {"A", "B"}, suggested_text : {"B", "C"}]

OtherEdits ==
    {[section |-> "skills", entry_index |-> [int |-> 0], field |-> "technical",
      original_text |-> "A", suggested_text |-> "C"],
     [section |-> "experience", entry_index |-> [int |-> 0], field |-> "title",
      original_text |-> "A", suggested_text |-> "C"]}

\* Records that lack one key.
PartialEdits ==
    {Without(e, key) :
        e \in {x \in SummaryEdits \cup ExperienceEdits :
                  /\ x["entry_index"] = [int |-> 0]
                  /\ x["original_text"] = "A"
                  /\ x["suggested_text"] = "C"},
        key \in Keys}

Edits == SummaryEdits \cup ExperienceEdits \cup OtherEdits \cup PartialEdits

-----------------------------------------------------------------------------
(* The other section builders *)

SummaryHead == "\\section*{Summary}\n"
SummaryEnd == "\\vspace{10pt}\n"

\* not data.get(key), for a str or list value.
absent(d, key) == key \notin DOMAIN d \/ Len(d[key]) = 0

build_summary_section(d) ==
    IF absent(d, "summary") THEN <<>>
    ELSE <<SummaryHead>> \o sanitize_for_latex(d["summary"]) \o <<SummaryEnd>>

EducationHead ==
    "\\section*{Education}\n\\begin{itemize}[leftmargin=0.15in, label={}]\n"

\* The f-string of the loop has the literal parts of the experience block.
education_block(entry) ==
    <<ItemHead>> \o sanitize_for_latex(get(entry, "institution"))
        \o <<AfterTitle>> \o sanitize_for_latex(get(entry, "dates"))
        \o <<AfterDates>> \o sanitize_for_latex(get(entry, "degree"))
        \o <<AfterCompany>> \o sanitize_for_latex(get(entry, "location"))
        \o <<AfterLocation>>

build_education_section(d) ==
    IF absent(d, "education") THEN <<>>
    ELSE <<EducationHead>>
            \o Flatten([k \in 1..Len(d["education"]) |-> education_block(d["education"][k])])
            \o <<SectionEnd>>

SkillsHead == "\\section*{Skills}\n\\noindent\n"
MinipageBegin == "\\begin{minipage}[t]{"
HalfWidth == "0.5"
FullWidth == "1.0"
TechnicalHead ==
    "\\textwidth}\n    \\begin{itemize}[leftmargin=0.15in, label={}, noitemsep, topsep=0pt]\n        \\item \\textbf{Technical Skills}\n        \\begin{itemize}[leftmargin=0.2in, topsep=2pt, itemsep=-2pt]\n"
ProfessionalHead ==
    "\\textwidth}\n    \\begin{itemize}[leftmargin=0.15in, label={}, noitemsep, topsep=0pt]\n        \\item \\textbf{Professional Skills}\n        \\begin{itemize}[leftmargin=0.2in, topsep=2pt, itemsep=-2pt]\n"
SkillItem == "            \\item "
LineEnd == "\n"
TechnicalEnd == "        \\end{itemize}\n    \\end{itemize}\n\\end{minipage}"
ColumnBreak == "%\n"
ProfessionalEnd == "        \\end{itemize}\n    \\end{itemize}\n\\end{minipage}\n\n"

\* skill.replace('\\textbackslash{}\\&', ' & '), then the sanitizer.
clean_skill(skill) ==
    sanitize_for_latex(str_replace(skill, conv[BS] \o conv["&"], <<" ", "&", " ">>, 1))

skill_lines(skills) ==
    Flatten([j \in 1..Len(skills) |-> <<SkillItem>> \o clean_skill(skills[j]) \o <<LineEnd>>])

build_skills_section(d) ==
    IF "skills" \notin DOMAIN d \/ DOMAIN d["skills"] = {}
          \/ (absent(d["skills"], "technical") /\ absent(d["skills"], "professional"))
    THEN <<>>
    ELSE LET skills == d["skills"]
             tech_skills == IF "technical" \in DOMAIN skills THEN skills["technical"] ELSE <<>>
             prof_skills == IF "professional" \in DOMAIN skills THEN skills["professional"] ELSE <<>>
             col_width == IF ~empty(tech_skills) /\ ~empty(prof_skills)
                          THEN HalfWidth ELSE FullWidth
         IN  <<SkillsHead>>
                \o (IF ~empty(tech_skills)
                    THEN <<MinipageBegin, col_width, TechnicalHead>>
                            \o skill_lines(tech_skills) \o <<TechnicalEnd>>
                            \o (IF ~empty(prof_skills) THEN <<ColumnBreak>> ELSE <<>>)
                    ELSE <<>>)
                \o (IF ~empty(prof_skills)
                    THEN <<MinipageBegin, col_width, ProfessionalHead>>
                            \o skill_lines(prof_skills) \o <<ProfessionalEnd>>
                    ELSE <<>>)

LanguagesHead ==
    "\\section*{Languages}\n\\begin{itemize}[leftmargin=0.15in, topsep=0pt]\n"
LanguageItem == "    \\item "
LanguagesEnd == "\\end{itemize}\n"

build_languages_section(d) ==
    IF absent(d, "languages") THEN <<>>
    ELSE <<LanguagesHead>>
            \o Flatten([j \in 1..Len(d["languages"]) |->
                           <<LanguageItem>> \o sanitize_for_latex(d["languages"][j]) \o <<LineEnd>>])
            \o <<LanguagesEnd>>

\* data.get("contact", {})
contact_of(d) == IF "contact" \in DOMAIN d THEN d["contact"] ELSE <<>>

PhotoHead == "\\includegraphics[width=0.8\\textwidth]{"
PhotoEnd == "}"

\* The copy of the photo in the output directory.
PhotoCopy == <<"photo", "">>

\* os.path.basename: what follows the last "/".
RECURSIVE basename(_)
basename(path) ==
    IF \A i \in 1..Len(path) : path[i] # "/" THEN path
    ELSE basename(Tail(path))

\* Lines 391-399: with a photo path that exists the file is copied into the
\* output directory and its name embedded, "\" replaced by "/" and nothing
\* else changed.
build_photo_block(files, d, e) ==
    LET photo_path == get(contact_of(d), "photo_path")
    IN  IF ~empty(photo_path) /\ e.photo_exists
        THEN [fs |-> files \cup {PhotoCopy},
              events |-> <<"shutil.copy">>,
              text |-> <<PhotoHead>>
                          \o str_replace(basename(photo_path), <<BS>>, <<"/">>, 1)
                          \o <<PhotoEnd>>]
        ELSE [fs |-> files, events |-> <<>>, text |-> <<>>]

-----------------------------------------------------------------------------
(* generate_resume_latex *)

\* A template is a sequence of the parts str.format tells apart: "{{" and "}}",
\* a replacement field "{NAME}", and single characters of literal text.
Field(name) == "{" \o name \o "}"

\* The keys of the placeholders dict of line 441.
PlaceholderNames ==
    {"FULL_NAME", "EMAIL", "PHONE", "LINKEDIN", "LINKEDIN_DISPLAY",
     "SUMMARY_SECTION", "EXPERIENCE_SECTION", "EDUCATION_SECTION",
     "SKILLS_SECTION", "LANGUAGES_SECTION", "PHOTO_BLOCK"}

\* A field name no placeholder has.
UnknownNames == {"NICKNAME"}

FieldName(tok) == CHOOSE n \in PlaceholderNames \cup UnknownNames : tok = Field(n)

IsField(tok) == \E n \in PlaceholderNames \cup UnknownNames : tok = Field(n)

\* A replacement for str.format that leaves the fields of one name in place.
format_but_email(template, placeholders) ==
    IF \E i \in 1..Len(template) :
          IsField(template[i]) /\ FieldName(template[i]) \notin DOMAIN placeholders
    THEN [raised |-> "KeyError", text |-> <<>>]
    ELSE [raised |-> "",
          text |-> Flatten([i \in 1..Len(template) |->
                      LET tok == template[i]
                      IN  IF tok = "{{" THEN <<"{">>
                          ELSE IF tok = "}}" THEN <<"}">>
                          ELSE IF IsField(tok) /\ tok # Field("EMAIL")
                               THEN placeholders[FieldName(tok)]
                          ELSE <<tok>>])]

\* template_string.format(**placeholders): one pass over the template; a
\* doubled brace gives one brace, a field the value of its name, and a field
\* whose name is no key raises KeyError.
format(template, placeholders) ==
    IF \E i \in 1..Len(template) :
          IsField(template[i]) /\ FieldName(template[i]) \notin DOMAIN placeholders
    THEN [raised |-> "KeyError", text |-> <<>>]
    ELSE [raised |-> "",
          text |-> Flatten([i \in 1..Len(template) |->
                      LET tok == template[i]
                      IN  IF tok = "{{" THEN <<"{">>
                          ELSE IF tok = "}}" THEN <<"}">>
                          ELSE IF IsField(tok) THEN placeholders[FieldName(tok)]
                          ELSE <<tok>>])]

HttpsWww == <<"h", "t", "t", "p", "s", ":", "/", "/", "w", "w", "w", ".">>
HttpWww == <<"h", "t", "t", "p", ":", "/", "/", "w", "w", "w", ".">>

\* Line 440.
linkedin_display(contact) ==
    str_replace(str_replace(get(contact, "linkedin"), HttpsWww, <<>>, 1), HttpWww, <<>>, 1)

\* Line 441: the placeholders dict; building it copies the photo.
placeholders_of(d, photo) ==
    LET contact == contact_of(d)
    IN  [n \in PlaceholderNames |->
            CASE n = "FULL_NAME" -> sanitize_for_latex(get(contact, "full_name"))
              [] n = "EMAIL" -> sanitize_for_latex(get(contact, "email"))
              [] n = "PHONE" -> sanitize_for_latex(get(contact, "phone"))
              [] n = "LINKEDIN" -> sanitize_for_latex(get(contact, "linkedin"))
              [] n = "LINKEDIN_DISPLAY" -> sanitize_for_latex(linkedin_display(contact))
              [] n = "SUMMARY_SECTION" -> build_summary_section(d)
              [] n = "EXPERIENCE_SECTION" -> build_experience_section(d)
              [] n = "EDUCATION_SECTION" -> build_education_section(d)
              [] n = "SKILLS_SECTION" -> build_skills_section(d)
              [] n = "LANGUAGES_SECTION" -> build_languages_section(d)
              [] n = "PHOTO_BLOCK" -> photo.text]

\* Lines 438-442, after the template was found and read.
render(files, d, e) ==
    Once(build_photo_block(files, d, e), LAMBDA photo :
        Once(format(e.template, placeholders_of(d, photo)), LAMBDA f :
            [fs |-> photo.fs, events |-> photo.events,
             result |-> IF f.raised = "" THEN f.text ELSE None, raised |-> f.raised]))

\* The placeholders are built before the template is looked for.
template_found_late(files, d, e) ==
    IF ~e.template_exists
    THEN [render(files, d, e) EXCEPT !.result = None, !.raised = ""]
    ELSE render(files, d, e)

\* Lines 433-442.  The result is the document source or None.
generate_resume_latex(files, d, e) ==
    IF ~e.template_exists
    THEN [fs |-> files, events |-> <<>>, result |-> None, raised |-> ""]
    ELSE render(files, d, e)

-----------------------------------------------------------------------------
(* compile_latex_to_pdf *)

\* The exit statuses of one pdflatex run.
ExitCodes == {0, 1}

\* analyze_job_description returned None or the empty string.
NoResponse == [form |-> "empty", members |-> <<>>]

\* An outside world in which every step succeeds.
Quiet ==
    [template_exists |-> TRUE, template |-> <<>>, photo_exists |-> TRUE,
     docx_template_exists |-> TRUE, which |-> TRUE, write_ok |-> TRUE,
     exit1 |-> 0, exit2 |-> 0, rm_fails |-> {},
     format_choices |-> {}, template_choice |-> "",
     job_desc |-> "", ai |-> NoResponse, confirm |-> FALSE, new_status |-> "",
     contact_name |-> <<>>, contact_company |-> <<>>]

\* Line 402: shutil.which("pdflatex") found the tool.
tool_assumed(e) == TRUE

tool_found(e) == e.which

\* check=True: a non-zero exit raises CalledProcessError.
run_never_failed(exit) == FALSE

run_failed(exit) == exit # 0

\* What one run of pdflatex leaves in the output directory: the .aux and .log
\* files, and the .pdf when it exits zero.
pdflatex(files, base, exit) ==
    files \cup {<<base, ".aux">>, <<base, ".log">>}
          \cup (IF exit = 0 THEN {<<base, ".pdf">>} ELSE {})

\* Line 427: the extensions the finally block walks through.
cleanup_log_only == <<".log">>

cleanup_exts == <<".aux", ".log">>

\* Lines 425-431: each existing file of the list is removed; an OSError from
\* os.remove is swallowed and the file stays.
RECURSIVE cleanup(_, _, _, _, _)
cleanup(files, base, rm_fails, exts, i) ==
    IF i > Len(exts) THEN [fs |-> files, events |-> <<>>]
    ELSE LET f == <<base, exts[i]>>
             here == IF f \in files /\ exts[i] \notin rm_fails
                     THEN files \ {f} ELSE files
             rest == cleanup(here, base, rm_fails, exts, i + 1)
         IN  [fs |-> rest.fs,
              events |-> (IF f \in files THEN <<"os.remove " \o exts[i]>> ELSE <<>>)
                         \o rest.events]

\* Lines 401-431.  The result is the file name <<base, ".pdf">> or None.
compile_latex_to_pdf(files, base, e) ==
    IF ~tool_found(e)
    THEN [fs |-> files, events |-> <<>>, result |-> None]
    ELSE IF ~e.write_ok
    THEN [fs |-> files, events |-> <<"open .tex">>, result |-> None]
    ELSE LET written == files \cup {<<base, ".tex">>}
             run1 == pdflatex(written, base, e.exit1)
             run2 == pdflatex(run1, base, e.exit2)
             ran == IF run_failed(e.exit1) THEN run1 ELSE run2
             runs == IF run_failed(e.exit1) THEN <<"pdflatex">>
                     ELSE <<"pdflatex", "pdflatex">>
             ok == ~run_failed(e.exit1) /\ ~run_failed(e.exit2)
             c == cleanup(ran, base, e.rm_fails, cleanup_exts, 1)
         IN  [fs |-> c.fs,
              events |-> <<"open .tex">> \o runs \o c.events,
              result |-> IF ok THEN <<base, ".pdf">> ELSE None]

-----------------------------------------------------------------------------
(* generation_workflow *)

\* Lines 467-501, as far as the output directory goes: without the Word
\* template nothing is written, with it <base>.docx is saved.
generate_docx_resume(files, base, e) ==
    IF e.docx_template_exists THEN files \cup {<<base, ".docx">>} ELSE files

\* if latex_code: neither None nor the empty string.
truthy(code) == code # None /\ code # <<>>

\* Lines 588-590: compile_latex_to_pdf is called with a document source that
\* is neither None nor empty.
compile_if_generated(g, base, e) ==
    IF g.raised = "" /\ truthy(g.result)
    THEN compile_latex_to_pdf(g.fs, base, e)
    ELSE [fs |-> g.fs, events |-> <<>>, result |-> None]

\* Lines 573-593.  An exception of generate_resume_latex leaves the workflow.
generation_workflow(files, d, base, e) ==
    IF DOMAIN d = {} \/ e.format_choices = {}
    THEN [fs |-> files, events |-> <<>>, result |-> None, raised |-> ""]
    ELSE Once(IF "PDF (via LaTeX)" \in e.format_choices /\ e.template_choice # ""
              THEN generate_resume_latex(files, d, e)
              ELSE [fs |-> files, events |-> <<>>, result |-> None, raised |-> ""],
              LAMBDA g :
         Once(compile_if_generated(g, base, e), LAMBDA c :
            LET docx == "Word (DOCX)" \in e.format_choices /\ g.raised = ""
            IN  [fs |-> IF docx THEN generate_docx_resume(c.fs, base, e) ELSE c.fs,
                 events |-> g.events \o c.events
                             \o (IF docx THEN <<"generate_docx_resume">> ELSE <<>>),
                 result |-> None,
                 raised |-> g.raised]))

-----------------------------------------------------------------------------
(* The AI response and the workflows that use it *)

\* The response string by its form: "empty" (None or ""), "garbage" (no
\* JSON), "array" (JSON, but no object) or "object" with its members.

\* json.loads followed by the two ai_data.get calls: text that is no JSON
\* raises JSONDecodeError, a value that is no dict raises AttributeError, a
\* missing key gives the default.
parse_response(r) ==
    IF r.form = "garbage"
    THEN [raised |-> "JSONDecodeError", suggested_edits |-> <<>>]
    ELSE IF r.form # "object"
    THEN [raised |-> "AttributeError", suggested_edits |-> <<>>]
    ELSE [raised |-> "",
          suggested_edits |-> IF "suggested_edits" \in DOMAIN r.members
                              THEN r.members["suggested_edits"] ELSE <<>>]

\* apply_ai_edits by value, for edits of the summary: the copy's summary is
\* replaced when it equals original_text.
RECURSIVE apply_ai_edits(_, _)
apply_ai_edits(d, edits) ==
    IF edits = <<>> THEN d
    ELSE LET e == Head(edits)
             here == IF e.section = "summary" /\ get(d, "summary") = e.original_text
                     THEN [k \in DOMAIN d \cup {"summary"} |->
                              IF k = "summary" THEN e.suggested_text ELSE d[k]]
                     ELSE d
         IN  apply_ai_edits(here, Tail(edits))

\* A call that made its changes in the profile it was given.
argument_edited(d, edits) == apply_ai_edits(d, edits)

\* The profile given to apply_ai_edits as the call leaves it: the changes go
\* to the deep copy of line 557, and the argument is not assigned to.
argument_after(d, edits) == d

\* f"resume_{full_name}_for_{company_name}", for the one full name of the
\* profiles used.
tailored_base(company) == "resume_for_" \o company

Nothing == [fs |-> {}, events |-> <<>>, result |-> None, raised |-> ""]

\* Lines 596-626.
job_description_workflow(d, application, e) ==
    IF DOMAIN d = {} \/ e.job_desc = "" THEN Nothing
    ELSE IF e.ai.form = "empty"
    THEN [Nothing EXCEPT !.events = <<"analyze_job_description">>]
    ELSE LET p == parse_response(e.ai)
         IN  IF p.raised = "JSONDecodeError"
             THEN [Nothing EXCEPT !.events = <<"analyze_job_description">>]
             ELSE IF p.raised # ""
             THEN [Nothing EXCEPT !.events = <<"analyze_job_description">>,
                                  !.raised = p.raised]
             ELSE IF p.suggested_edits # <<>> /\ e.confirm
             THEN Once(generation_workflow({}, apply_ai_edits(d, p.suggested_edits),
                                           tailored_base(application.company), e),
                       LAMBDA w :
                           [w EXCEPT !.events =
                                 <<"analyze_job_description", "apply_ai_edits">> \o w.events])
             ELSE [Nothing EXCEPT !.events = <<"analyze_job_description">>]

\* Line 675: status "Applied" and no resume version yet.
unprocessed(apps) ==
    LET RECURSIVE from(_)
        from(i) ==
            IF i > Len(apps) THEN <<>>
            ELSE (IF apps[i].status = "Applied" /\ apps[i].resume_version = ""
                  THEN <<i>> ELSE <<>>) \o from(i + 1)
    IN  from(1)

\* f"{job_title} at {company}"
app_str_of(app) == <<app.job_title, app.company>>

\* Line 679.
app_choices_of(apps, unproc) == [k \in 1..Len(unproc) |-> app_str_of(apps[unproc[k]])]

\* list.index: the first position that holds x.
first_index(list, x) == CHOOSE i \in 1..Len(list) : list[i] = x /\ \A j \in 1..(i - 1) : list[j] # x

\* Lines 711-714: the first application with the target's company and job
\* title.
first_match(apps, target) ==
    CHOOSE i \in 1..Len(apps) :
        /\ apps[i].company = target.company /\ apps[i].job_title = target.job_title
        /\ \A j \in 1..(i - 1) :
              ~(apps[j].company = target.company /\ apps[j].job_title = target.job_title)

\* The file name returned, as the text stored in the tracker.
file_name(res) == res[1] \o res[2]

\* A write-back that does not look at what compile_latex_to_pdf returned.
always_produced(generated_filename) == TRUE

\* if generated_filename
document_produced(generated_filename) == generated_filename # None

\* Lines 684-723: one iteration of the loop, for the selected string app_str.
\* saved tells whether save_data was called; base_resume_data is the profile
\* that name refers to when the iteration ends.
batch_iteration(apps, unproc, app_str, d, e) ==
    LET target == apps[unproc[first_index(app_choices_of(apps, unproc), app_str)]]
        skip == [applications |-> apps, saved |-> FALSE, fs |-> {}, result |-> None,
                 raised |-> "", filename_base |-> "", events |-> <<>>,
                 base_resume_data |-> d]
        asked == [skip EXCEPT !.events = <<"analyze_job_description">>]
    IN  IF e.job_desc = "" THEN skip
        ELSE IF e.ai.form = "empty" THEN asked
        ELSE LET p == parse_response(e.ai)
             IN  IF p.raised = "JSONDecodeError" THEN asked
                 ELSE IF p.raised # "" THEN [asked EXCEPT !.raised = p.raised]
                 ELSE IF p.suggested_edits = <<>> THEN asked
                 ELSE LET base == tailored_base(target.company)
                          i == first_match(apps, target)
                      IN  Once(generate_resume_latex({}, apply_ai_edits(d, p.suggested_edits), e),
                               LAMBDA g :
                          Once(compile_if_generated(g, base, e), LAMBDA c :
                             LET write == g.raised = "" /\ truthy(g.result)
                                             /\ document_produced(c.result)
                             IN  [applications |->
                                     IF write
                                     THEN [apps EXCEPT ![i].resume_version =
                                              IF c.result = None THEN "None"
                                              ELSE file_name(c.result)]
                                     ELSE apps,
                                  saved |-> write,
                                  fs |-> c.fs,
                                  result |-> c.result,
                                  raised |-> g.raised,
                                  filename_base |-> base,
                                  base_resume_data |->
                                     argument_after(d, p.suggested_edits),
                                  events |-> <<"analyze_job_description", "apply_ai_edits">>
                                                \o g.events \o c.events
                                                \o (IF write THEN <<"save_data">> ELSE <<>>)]))

\* Line 755: the choices of the status prompt.
Statuses == {"Applied", "Interviewing", "Offer Received", "Rejected", "Closed"}

\* A status written whatever the prompt returned.
status_always_chosen(new_status) == TRUE

\* if new_status: the prompt was not cancelled.
status_chosen(new_status) == new_status # ""

-----------------------------------------------------------------------------
(* check_and_add_contact *)

\* str.lower() on the letters of the names used: the capital letters and, at
\* the same position, their small letters; any other character is kept.
Capitals == <<"A", "B", "C", "E", "G", "H", "I", "M", "N", "R", "T">>
Smalls == <<"a", "b", "c", "e", "g", "h", "i", "m", "n", "r", "t">>

lower_char(c) ==
    IF \E i \in 1..Len(Capitals) : Capitals[i] = c
    THEN Smalls[CHOOSE i \in 1..Len(Capitals) : Capitals[i] = c]
    ELSE c

lower(s) == [i \in 1..Len(s) |-> lower_char(s[i])]

\* Line 238: 'hiring team'.
hiring_team == <<"h", "i", "r", "i", "n", "g", " ", "t", "e", "a", "m">>

\* A search that compares the name and the company as they were typed.
any_as_typed(log, name, company) ==
    IF \E i \in 1..Len(log) : log[i].name = name /\ log[i].company = company
    THEN "True" ELSE "False"

\* Line 240: any(... for c in contacts), "True" or "False", or the exception
\* that .lower() of a company that is None raises. The company of a contact is
\* looked at only when its name matches, the contact's before the argument's,
\* and the search stops at the first match.
RECURSIVE any(_, _, _)
any(log, name, company) ==
    IF log = <<>> THEN "False"
    ELSE IF lower(Head(log).name) # lower(name) THEN any(Tail(log), name, company)
    ELSE IF Head(log).company = None \/ company = None THEN "AttributeError"
    ELSE IF lower(Head(log).company) = lower(company) THEN "True"
    ELSE any(Tail(log), name, company)

\* Line 243, without the date.
new_contact(name, company, role) ==
    [name |-> name, company |-> company, role |-> role, notes |-> "Automatically added"]

\* Lines 236-246, with role at its default: the log file as the call leaves
\* it, what the call did, and the exception that left it.
check_and_add_contact(log, name, company, confirm) ==
    IF name = None \/ name = <<>> \/ lower(name) = hiring_team
    THEN [contacts |-> log, events |-> <<>>, raised |-> ""]
    ELSE Once(any(log, name, company), LAMBDA exists :
            IF exists = "AttributeError"
            THEN [contacts |-> log, events |-> <<"load_data">>, raised |-> exists]
            ELSE IF exists = "True"
            THEN [contacts |-> log, events |-> <<"load_data">>, raised |-> ""]
            ELSE IF ~confirm
            THEN [contacts |-> log, events |-> <<"load_data", "questionary.confirm">>,
                  raised |-> ""]
            ELSE [contacts |-> Append(log, new_contact(name, company, <<>>)),
                  events |-> <<"load_data", "questionary.confirm", "save_contacts">>,
                  raised |-> ""])

\* The characters of a company name of the tracker.
company_str(company) == IF company = "c1" THEN <<"c", "1">> ELSE <<"c", "2">>

-----------------------------------------------------------------------------
(* Inputs of the document calls *)

\* The outside worlds of one call of compile_latex_to_pdf.
CompileEnvs ==
    [template_exists : {TRUE}, template : {<<>>}, photo_exists : {TRUE},
     docx_template_exists : {TRUE}, which : BOOLEAN, write_ok : BOOLEAN,
     exit1 : ExitCodes, exit2 : ExitCodes,
     rm_fails : SUBSET {".aux", ".log"},
     format_choices : {{}}, template_choice : {""},
     job_desc : {""}, ai : {NoResponse}, confirm : {FALSE}, new_status : {""},
     contact_name : {<<>>}, contact_company : {<<>>}]

\* The characters of each placeholder name.
EMAIL == <<"E", "M", "A", "I", "L">>
PHONE == <<"P", "H", "O", "N", "E">>

\* Profiles for generate_resume_latex: an empty one, an ordinary one, and ones
\* whose texts spell a placeholder name or a replacement field.
OrdinaryContact ==
    [full_name |-> <<"a", " ", "b">>, email |-> <<"a", "_", "b">>, phone |-> <<"1">>,
     linkedin |-> HttpsWww \o <<"x">>, photo_path |-> <<"d", "/", "p", BS, "q">>]

OrdinaryProfile ==
    [contact |-> OrdinaryContact,
     summary |-> <<"s", "&">>,
     experience |-> <<[title |-> <<"a">>, dates |-> <<"1">>, company |-> <<"c">>,
                       location |-> <<"l">>, accomplishments |-> <<<<"x">>>>]>>,
     education |-> <<[institution |-> <<"u">>, dates |-> <<"2">>, degree |-> <<"d">>,
                      location |-> <<"l">>]>>,
     skills |-> [technical |-> <<<<"t">>>>, professional |-> <<<<BS, "&">>>>],
     languages |-> <<<<"e">>>>]

GenProfiles ==
    {<<>>,
     OrdinaryProfile,
     [contact |-> [full_name |-> <<"a">>], skills |-> [technical |-> <<<<"t">>>>]],
     [OrdinaryProfile EXCEPT !["experience"][1]["accomplishments"] = <<EMAIL>>],
     [OrdinaryProfile EXCEPT !["contact"]["photo_path"] = <<"d", "/">> \o PHONE],
     [OrdinaryProfile EXCEPT !["contact"]["email"] = <<"{">> \o EMAIL \o <<"}">>],
     [OrdinaryProfile EXCEPT !["contact"]["full_name"] = EMAIL]}

\* Templates: every placeholder once, a field inside doubled braces, literal
\* text that spells a field inside doubled braces, an empty file, and a field
\* whose name is no placeholder.
FullTemplate ==
    <<Field("FULL_NAME"), " ", Field("EMAIL"), " ", Field("PHONE"), " ",
      Field("LINKEDIN"), " ", Field("LINKEDIN_DISPLAY"), "\n",
      Field("PHOTO_BLOCK"), Field("SUMMARY_SECTION"), Field("EXPERIENCE_SECTION"),
      Field("EDUCATION_SECTION"), Field("SKILLS_SECTION"), Field("LANGUAGES_SECTION")>>
BracedTemplate == <<"{{", Field("FULL_NAME"), "}}", Field("EMAIL")>>
SpelledTemplate == <<"{{">> \o EMAIL \o <<"}}">>
EmptyTemplate == <<>>
ShortTemplate == <<Field("FULL_NAME"), "\n", Field("SUMMARY_SECTION")>>
UnknownFieldTemplate == <<Field("PHOTO_BLOCK"), Field("NICKNAME")>>

Templates ==
    {FullTemplate, ShortTemplate, BracedTemplate, SpelledTemplate, EmptyTemplate,
     UnknownFieldTemplate}

GenerateEnvs ==
    [template_exists : BOOLEAN, template : Templates, photo_exists : BOOLEAN,
     docx_template_exists : {TRUE}, which : {TRUE}, write_ok : {TRUE},
     exit1 : {0}, exit2 : {0}, rm_fails : {{}},
     format_choices : {{}}, template_choice : {"Modern"},
     job_desc : {""}, ai : {NoResponse}, confirm : {FALSE}, new_status : {""},
     contact_name : {<<>>}, contact_company : {<<>>}]

\* The answers of the two prompts of generation_workflow; "" is a cancelled
\* prompt.
FormatChoices == SUBSET {"PDF (via LaTeX)", "Word (DOCX)"}
TemplateChoices == {"", "Modern", "Photo Professional"}

WorkflowProfiles == {<<>>, OrdinaryProfile}

WorkflowEnvs ==
    [template_exists : BOOLEAN,
     template : {ShortTemplate, EmptyTemplate, UnknownFieldTemplate},
     photo_exists : {TRUE}, docx_template_exists : BOOLEAN,
     which : BOOLEAN, write_ok : BOOLEAN,
     exit1 : ExitCodes, exit2 : ExitCodes, rm_fails : {{}, {".aux"}},
     format_choices : FormatChoices, template_choice : TemplateChoices,
     job_desc : {""}, ai : {NoResponse}, confirm : {FALSE}, new_status : {""},
     contact_name : {<<>>}, contact_company : {<<>>}]

\* AI responses: none, no JSON, JSON that is no object, and objects with
\* each choice of the two keys; the edit makes the summary "t".
SummaryEdit ==
    [section |-> "summary", original_text |-> OrdinaryProfile["summary"],
     suggested_text |-> <<"t">>]
Garbage == [form |-> "garbage", members |-> <<>>]
Array == [form |-> "array", members |-> <<>>]
EmptyObject == [form |-> "object", members |-> <<>>]
AnalysisOnly == [form |-> "object", members |-> [analysis |-> "text"]]
EditsOnly == [form |-> "object", members |-> [suggested_edits |-> <<SummaryEdit>>]]
NoEdits == [form |-> "object", members |-> [analysis |-> "text", suggested_edits |-> <<>>]]
WithEdits ==
    [form |-> "object", members |-> [analysis |-> "text", suggested_edits |-> <<SummaryEdit>>]]

AiResponses ==
    {NoResponse, Garbage, Array, EmptyObject, AnalysisOnly, EditsOnly, NoEdits, WithEdits}

\* An outside world in which a job description is pasted, the AI answers with
\* edits, the offer is accepted and the document is produced.
Tailoring ==
    [Quiet EXCEPT !.template = ShortTemplate, !.job_desc = "job", !.ai = WithEdits,
                  !.confirm = TRUE, !.format_choices = {"PDF (via LaTeX)", "Word (DOCX)"},
                  !.template_choice = "Modern"]

\* What can go wrong with the document, one cause at a time.
Failures ==
    {[Tailoring EXCEPT !.template_exists = FALSE],
     [Tailoring EXCEPT !.template = EmptyTemplate],
     [Tailoring EXCEPT !.template = UnknownFieldTemplate],
     [Tailoring EXCEPT !.which = FALSE],
     [Tailoring EXCEPT !.write_ok = FALSE],
     [Tailoring EXCEPT !.exit1 = 1],
     [Tailoring EXCEPT !.exit2 = 1],
     [Tailoring EXCEPT !.rm_fails = {".aux", ".log"}]}

\* The outside worlds of one iteration of the batch loop.
BatchEnvs ==
    {[Tailoring EXCEPT !.ai = r] : r \in AiResponses}
        \cup {[Tailoring EXCEPT !.job_desc = ""]}
        \cup Failures
        \cup {[Tailoring EXCEPT !.ai = EditsOnly, !.which = FALSE]}

\* The outside worlds of job_description_workflow.
JobDescriptionEnvs ==
    {[Tailoring EXCEPT !.ai = r, !.confirm = c] : r \in AiResponses, c \in BOOLEAN}
        \cup {[Tailoring EXCEPT !.job_desc = ""]}
        \cup Failures

\* What add_new_application is told.
Companies == {"c1", "c2"}
JobTitles == {"t1"}

\* The contact person typed in add_new_application: none, or the team.
HiringTeam == <<"H", "i", "r", "i", "n", "g", " ", "T", "e", "a", "m">>
ContactPersons == {<<>>, HiringTeam}

MaxApps == 2
MaxOps == 4

\* What check_and_add_contact is called with from the cover letter workflow
\* (line 643): names that differ in case only, no name, the team in three
\* spellings; companies that differ in case only, and no company.
ContactNames ==
    {<<>>, None, <<"a">>, <<"A">>, <<"b">>, hiring_team, HiringTeam,
     <<"H", "I", "R", "I", "N", "G", " ", "T", "E", "A", "M">>}
ContactCompanies == {<<"c">>, <<"C">>, None}

MaxCalls == 3

-----------------------------------------------------------------------------
(* The program *)

Init ==
    /\ pc = "idle"
    /\ text = None
    /\ sanitized = <<>>
    /\ data = <<>>
    /\ experience_str = <<>>
    /\ dicts = <<>>
    /\ lists = <<>>
    /\ resume_data = 0
    /\ editable_resume = 0
    /\ edit = <<>>
    /\ printed = "nothing"
    /\ n_edits = 0
    /\ before = <<>>
    /\ fs = {}
    /\ events = <<>>
    /\ result = None
    /\ raised = ""
    /\ env = Quiet
    /\ filename_base = "resume"
    /\ tracker = <<>>
    /\ applications = <<>>
    /\ unprocessed_apps = <<>>
    /\ todo = <<>>
    /\ n_ops = 0
    /\ loaded_profile = <<>>
    /\ contacts = <<>>
    /\ n_calls = 0

CallSanitize ==
    /\ pc = "idle"
    /\ \E t \in Texts :
        /\ text' = t
        /\ sanitized' = sanitize_for_latex(t)
    /\ pc' = "sanitize_returned"
    /\ UNCHANGED <<data, experience_str, dicts, lists, resume_data,
                   editable_resume, edit, printed, n_edits, before, document_vars, tracker_vars, contact_vars>>

CallBuildExperience ==
    /\ pc = "idle"
    /\ \E d \in Profiles :
        /\ data' = d
        /\ experience_str' = build_experience_section(d)
    /\ pc' = "build_returned"
    /\ UNCHANGED <<text, sanitized, dicts, lists, resume_data,
                   editable_resume, edit, printed, n_edits, before, document_vars, tracker_vars, contact_vars>>

\* The call and line 557: the argument is the dict at address 1 with one list
\* per entry, the working copy is made from it.
CallApplyEdits ==
    /\ pc = "idle"
    /\ \E p \in ResumeProfiles :
        LET n == Len(p["experience"])
            arg == <<[summary |-> p["summary"],
                      experience |-> [k \in 1..n |-> entry_at(k)],
                      contact |-> "contact", education |-> "education",
                      skills |-> "skills", languages |-> "languages"]>>
            c == deepcopy(arg, p["experience"], 1)
        IN  /\ dicts' = c.dicts
            /\ lists' = c.lists
            /\ resume_data' = 1
            /\ editable_resume' = c.ref
            /\ before' = p
    /\ pc' = "apply_loop"
    /\ UNCHANGED <<text, sanitized, data, experience_str, edit, printed, n_edits,
                   document_vars, tracker_vars, contact_vars>>

\* One iteration of the loop over edits, for the next edit of the list.
ApplyNextEdit ==
    /\ pc = "apply_loop"
    /\ n_edits < MaxEdits
    /\ \E e \in Edits :
        LET r == process_edit(dicts, lists, resume_data, editable_resume, e)
        IN  /\ edit' = e
            /\ dicts' = r.dicts
            /\ lists' = r.lists
            /\ printed' = r.printed
            /\ pc' = IF r.raised \in {"", "KeyError", "IndexError"}
                     THEN "apply_loop" ELSE "apply_raised"
    /\ n_edits' = n_edits + 1
    /\ UNCHANGED <<text, sanitized, data, experience_str, resume_data,
                   editable_resume, before, document_vars, tracker_vars, contact_vars>>

\* The list is exhausted: return editable_resume.
ApplyReturn ==
    /\ pc = "apply_loop"
    /\ pc' = "apply_returned"
    /\ UNCHANGED <<text, sanitized, data, experience_str, dicts, lists, resume_data,
                   editable_resume, edit, printed, n_edits, before, document_vars, tracker_vars, contact_vars>>

\* compile_latex_to_pdf(latex_code, filename_base) with an empty output
\* directory.
CallCompile ==
    /\ pc = "idle"
    /\ \E e \in CompileEnvs :
        \E r \in {compile_latex_to_pdf({}, filename_base, e)} :
            /\ env' = e
            /\ fs' = r.fs
            /\ events' = r.events
            /\ result' = r.result
    /\ pc' = "compile_returned"
    /\ UNCHANGED <<text, sanitized, data, experience_str, dicts, lists, resume_data,
                   editable_resume, edit, printed, n_edits, before, raised,
                   filename_base, tracker_vars, contact_vars>>

\* generate_resume_latex(data, template_name) with an empty output directory.
CallGenerate ==
    /\ pc = "idle"
    /\ \E d \in GenProfiles, e \in GenerateEnvs :
        \E r \in {generate_resume_latex({}, d, e)} :
            /\ data' = d
            /\ env' = e
            /\ fs' = r.fs
            /\ events' = r.events
            /\ result' = r.result
            /\ raised' = r.raised
            /\ pc' = IF r.raised = "" THEN "generate_returned" ELSE "generate_raised"
    /\ UNCHANGED <<text, sanitized, experience_str, dicts, lists, resume_data,
                   editable_resume, edit, printed, n_edits, before, filename_base,
                   tracker_vars, contact_vars>>

\* generation_workflow(resume_data, filename_base) with an empty output
\* directory.
CallGenerationWorkflow ==
    /\ pc = "idle"
    /\ \E d \in WorkflowProfiles, e \in WorkflowEnvs :
        \E r \in {generation_workflow({}, d, filename_base, e)} :
            /\ data' = d
            /\ env' = e
            /\ fs' = r.fs
            /\ events' = r.events
            /\ result' = r.result
            /\ raised' = r.raised
            /\ pc' = IF r.raised = "" THEN "workflow_returned" ELSE "workflow_raised"
    /\ UNCHANGED <<text, sanitized, experience_str, dicts, lists, resume_data,
                   editable_resume, edit, printed, n_edits, before, filename_base,
                   tracker_vars, contact_vars>>

\* job_description_workflow(application) with an empty output directory.
CallJobDescriptionWorkflow ==
    /\ pc = "idle"
    /\ \E d \in WorkflowProfiles, e \in JobDescriptionEnvs, company \in Companies :
        \E r \in {job_description_workflow(d, [company |-> company, job_title |-> "t1",
                                                status |-> "Applied",
                                                resume_version |-> ""], e)} :
            /\ data' = d
            /\ env' = e
            /\ fs' = r.fs
            /\ events' = r.events
            /\ result' = r.result
            /\ raised' = r.raised
            /\ filename_base' = tailored_base(company)
            /\ pc' = IF r.raised = "" THEN "tailor_returned" ELSE "tailor_raised"
    /\ UNCHANGED <<text, sanitized, experience_str, dicts, lists, resume_data,
                   editable_resume, edit, printed, n_edits, before, tracker_vars, contact_vars>>

\* Lines 838-840 and select_application_workflow: the tracker file is created
\* empty and the job application manager is open.
OpenTracker ==
    /\ pc = "idle"
    /\ pc' = "menu"
    /\ tracker' = <<>>
    /\ UNCHANGED <<text, sanitized, data, experience_str, dicts, lists, resume_data,
                   editable_resume, edit, printed, n_edits, before, document_vars,
                   applications, unprocessed_apps, todo, n_ops, loaded_profile,
                   contact_vars>>

\* Lines 247-256: load, append, save, and with a contact person the call of
\* check_and_add_contact. Of the record, the fields the tracker code reads.
AddNewApplication ==
    /\ pc = "menu"
    /\ n_ops < MaxOps
    /\ Len(tracker) < MaxApps
    /\ \E company \in Companies, job_title \in JobTitles,
          contact_person \in ContactPersons, confirm \in BOOLEAN :
        \E r \in {IF contact_person # <<>>
                  THEN check_and_add_contact(contacts, contact_person,
                                             company_str(company), confirm)
                  ELSE [contacts |-> contacts, events |-> <<>>, raised |-> ""]} :
            /\ tracker' = Append(tracker, [company |-> company, job_title |-> job_title,
                                           status |-> "Applied", resume_version |-> ""])
            /\ contacts' = r.contacts
            /\ events' = <<"save_data">> \o r.events
            /\ raised' = r.raised
            /\ env' = IF contact_person # <<>>
                      THEN [Quiet EXCEPT !.contact_name = contact_person,
                                         !.contact_company = company_str(company),
                                         !.confirm = confirm]
                      ELSE Quiet
    /\ n_ops' = n_ops + 1
    /\ UNCHANGED <<pc, text, sanitized, data, experience_str, dicts, lists, resume_data,
                   editable_resume, edit, printed, n_edits, before, fs, result,
                   filename_base, applications, unprocessed_apps, todo, loaded_profile,
                   n_calls>>

\* Lines 751-761: "Update Status" in the menu of the application at position
\* k of the list.
UpdateStatus ==
    /\ pc = "menu"
    /\ n_ops < MaxOps
    /\ \E k \in 1..Len(tracker), new_status \in Statuses \cup {""} :
        LET i == first_match(tracker, tracker[k])
            write == status_chosen(new_status)
        IN  /\ tracker' = IF write THEN [tracker EXCEPT ![i].status = new_status]
                          ELSE tracker
            /\ events' = IF write THEN <<"save_data">> ELSE <<>>
            /\ env' = [Quiet EXCEPT !.new_status = new_status]
    /\ n_ops' = n_ops + 1
    /\ UNCHANGED <<pc, text, sanitized, data, experience_str, dicts, lists, resume_data,
                   editable_resume, edit, printed, n_edits, before, fs, result, raised,
                   filename_base, applications, unprocessed_apps, todo, loaded_profile,
                   contact_vars>>

\* Lines 667-682: the profile and the tracker are loaded and the jobs to
\* process selected; without a profile, an unprocessed application or a
\* selection the workflow returns.
BatchStart ==
    /\ pc = "menu"
    /\ n_ops < MaxOps
    /\ Len(tracker) > 0
    /\ \E d \in WorkflowProfiles :
        LET unproc == unprocessed(tracker)
            choices == app_choices_of(tracker, unproc)
        IN  \E selected \in SUBSET (1..Len(unproc)) :
                LET RECURSIVE strs(_)
                    strs(k) == IF k > Len(unproc) THEN <<>>
                               ELSE (IF k \in selected THEN <<choices[k]>> ELSE <<>>)
                                    \o strs(k + 1)
                    go == DOMAIN d # {} /\ selected # {}
                IN  /\ data' = d
                    /\ loaded_profile' = d
                    /\ applications' = IF DOMAIN d # {} THEN tracker ELSE <<>>
                    /\ unprocessed_apps' = IF DOMAIN d # {} THEN unproc ELSE <<>>
                    /\ todo' = IF go THEN strs(1) ELSE <<>>
                    /\ pc' = IF go THEN "batch_loop" ELSE "menu"
    /\ n_ops' = n_ops + 1
    /\ env' = Quiet
    /\ events' = <<>>
    /\ UNCHANGED <<text, sanitized, experience_str, dicts, lists, resume_data,
                   editable_resume, edit, printed, n_edits, before, fs, result, raised,
                   filename_base, tracker, contact_vars>>

\* One iteration of the loop over the selected strings.
BatchIteration ==
    /\ pc = "batch_loop"
    /\ todo # <<>>
    /\ \E e \in BatchEnvs :
        \E r \in {batch_iteration(applications, unprocessed_apps, Head(todo), data, e)} :
            /\ env' = e
            /\ applications' = r.applications
            /\ tracker' = IF r.saved THEN r.applications ELSE tracker
            /\ fs' = r.fs
            /\ events' = r.events
            /\ result' = r.result
            /\ raised' = r.raised
            /\ filename_base' = r.filename_base
            /\ data' = r.base_resume_data
            /\ pc' = IF r.raised = "" THEN "batch_loop" ELSE "batch_raised"
    /\ todo' = Tail(todo)
    /\ UNCHANGED <<text, sanitized, experience_str, dicts, lists, resume_data,
                   editable_resume, edit, printed, n_edits, before, unprocessed_apps,
                   n_ops, loaded_profile,
                   contact_vars>>

\* The loop is over: back in the job application manager.
BatchReturn ==
    /\ pc = "batch_loop"
    /\ todo = <<>>
    /\ pc' = "menu"
    /\ applications' = <<>>
    /\ unprocessed_apps' = <<>>
    /\ fs' = {}
    /\ events' = <<>>
    /\ result' = None
    /\ env' = Quiet
    /\ filename_base' = "resume"
    /\ UNCHANGED <<text, sanitized, data, experience_str, dicts, lists, resume_data,
                   editable_resume, edit, printed, n_edits, before, raised, tracker,
                   todo, n_ops, loaded_profile,
                   contact_vars>>

\* Line 643: check_and_add_contact called with the hiring manager and the
\* company of a cover letter, on the log as the calls before left it.
CallCheckAndAddContact ==
    /\ pc \in {"idle", "contact_returned", "contact_raised"}
    /\ n_calls < MaxCalls
    /\ \E name \in ContactNames, company \in ContactCompanies, confirm \in BOOLEAN :
        \E r \in {check_and_add_contact(contacts, name, company, confirm)} :
            /\ contacts' = r.contacts
            /\ events' = r.events
            /\ raised' = r.raised
            /\ env' = [Quiet EXCEPT !.contact_name = name, !.contact_company = company,
                                    !.confirm = confirm]
            /\ pc' = IF r.raised = "" THEN "contact_returned" ELSE "contact_raised"
    /\ n_calls' = n_calls + 1
    /\ UNCHANGED <<text, sanitized, data, experience_str, dicts, lists, resume_data,
                   editable_resume, edit, printed, n_edits, before, fs, result,
                   filename_base, tracker_vars>>

Next ==
    \/ CallCheckAndAddContact
    \/ CallJobDescriptionWorkflow
    \/ OpenTracker
    \/ AddNewApplication
    \/ UpdateStatus
    \/ BatchStart
    \/ BatchIteration
    \/ BatchReturn
    \/ CallCompile
    \/ CallGenerate
    \/ CallGenerationWorkflow
    \/ CallSanitize
    \/ CallBuildExperience
    \/ CallApplyEdits
    \/ ApplyNextEdit
    \/ ApplyReturn

Spec == Init /\ [][Next]_vars

-----------------------------------------------------------------------------
(* sanitize_for_latex: properties *)

Reserved == DOMAIN conv

\* The output read back from the left: a plain character stands for itself, an
\* escape sequence for the reserved character it was emitted for, and a
\* reserved character that starts no escape sequence is marked.
RECURSIVE Unescape(_, _)
Unescape(out, i) ==
    IF i > Len(out) THEN <<>>
    ELSE IF out[i] \notin Reserved THEN <<out[i]>> \o Unescape(out, i + 1)
    ELSE LET hits == {c \in Reserved : StartsWithAt(out, i, conv[c])}
         IN  IF hits = {} THEN <<"unescaped">>
             ELSE LET c == CHOOSE c \in hits : TRUE
                  IN  <<c>> \o Unescape(out, i + Len(conv[c]))

\* C8: the output of sanitize_for_latex holds no unescaped reserved character:
\* read from the left it splits into plain characters and whole escape
\* sequences, one for each reserved character of the input at its place, and no
\* reserved character of the input is copied as it is.
C8_NoUnescapedReserved ==
    pc = "sanitize_returned" =>
        /\ text # None => Unescape(sanitized, 1) = text
        /\ text = None => sanitized = <<>>

C8_Witness ==
    /\ pc = "sanitize_returned"
    /\ text = <<BS, "&">>
    /\ sanitized = conv[BS] \o conv["&"]

\* The escape sequence of one character, or the character itself.
EscapeOf(c) == IF c \in Reserved THEN conv[c] ELSE <<c>>

\* C9: sanitize_for_latex is one pass from the left: the result is the
\* concatenation, in input order, of every character's escape sequence (or the
\* character itself when it is not reserved), so what an escape sequence holds
\* is not escaped again; the empty string and None give the empty string.
C9_SinglePass ==
    pc = "sanitize_returned" =>
        IF text = None \/ text = <<>>
        THEN sanitized = <<>>
        ELSE sanitized = Flatten([k \in 1..Len(text) |-> EscapeOf(text[k])])

C9_Witness ==
    /\ pc = "sanitize_returned"
    /\ text = <<"~", "{">>
    /\ Len(sanitized) = Len(conv["~"]) + Len(conv["{"])

-----------------------------------------------------------------------------
(* build_experience_section: properties *)

\* The places of piece p in s, and the k-th of them from the left.
PlacesOf(s, p) == {i \in 1..Len(s) : s[i] = p}
NthPlace(s, p, k) ==
    CHOOSE i \in PlacesOf(s, p) : Cardinality({j \in PlacesOf(s, p) : j < i}) = k - 1

\* What follows the k-th p in s, up to the next p or the end of s.
PartAfter(s, p, k) ==
    SubSeq(s, NthPlace(s, p, k) + 1,
           IF k < Cardinality(PlacesOf(s, p)) THEN NthPlace(s, p, k + 1) - 1 ELSE Len(s))

\* What stands in s before the first piece p (s itself when p is not in it).
UpTo(s, p) ==
    IF PlacesOf(s, p) = {} THEN s ELSE SubSeq(s, 1, NthPlace(s, p, 1) - 1)

\* What stands in s between the first pieces p and q.
Between(s, p, q) == UpTo(PartAfter(s, p, 1), q)

\* The accomplishments of an entry as the inner loop sees them.
AccsOf(entry) ==
    IF "accomplishments" \in DOMAIN entry THEN entry["accomplishments"] ELSE <<>>

\* Block k of the output is the rendering of entry: its four fields in their
\* places, then one line per accomplishment in the order of the list.
BlockRenders(block, entry) ==
    /\ UpTo(block, AfterTitle) = entry_title(entry)
    /\ Between(block, AfterTitle, AfterDates) = entry_field(entry, "dates")
    /\ Between(block, AfterDates, AfterCompany) = entry_field(entry, "company")
    /\ Between(block, AfterCompany, AfterLocation) = entry_field(entry, "location")
    /\ Cardinality(PlacesOf(block, AccItem)) = Len(AccsOf(entry))
    /\ \A j \in 1..Len(AccsOf(entry)) :
          UpTo(PartAfter(block, AccItem, j), AccItemEnd) = sanitized_acc(AccsOf(entry)[j])

\* C10: build_experience_section returns the empty string when the experience
\* list is empty or absent; otherwise the output holds exactly one block per
\* entry, in the order of the list, and each block holds the entry's
\* accomplishments one line each in the order of the list.
C10_OneBlockPerEntryInOrder ==
    pc = "build_returned" =>
        IF "experience" \notin DOMAIN data \/ data["experience"] = <<>>
        THEN experience_str = <<>>
        ELSE /\ Cardinality(PlacesOf(experience_str, ItemHead)) = Len(data["experience"])
             /\ \A k \in 1..Len(data["experience"]) :
                   BlockRenders(PartAfter(experience_str, ItemHead, k), data["experience"][k])

C10_Witness ==
    /\ pc = "build_returned"
    /\ "experience" \in DOMAIN data
    /\ Len(data["experience"]) = 2
    /\ \A k \in 1..2 : {"title", "accomplishments"} \subseteq DOMAIN data["experience"][k]
    /\ data["experience"][1]["title"] # data["experience"][2]["title"]
    /\ Len(data["experience"][1]["accomplishments"]) = 2
    /\ data["experience"][1]["accomplishments"][1] # data["experience"][1]["accomplishments"][2]
    /\ Cardinality(PlacesOf(experience_str, ItemHead)) = 2

-----------------------------------------------------------------------------
(* apply_ai_edits: properties *)

\* The value of the working copy and of the argument.
WorkingCopy == ValueOf(dicts, lists, editable_resume)
Argument == ValueOf(dicts, lists, resume_data)

InApply == pc \in {"apply_loop", "apply_returned", "apply_raised"}

\* A step that is one iteration of the loop; edit' is the edit it processes.
Iteration == pc = "apply_loop" /\ n_edits' = n_edits + 1

IsSummaryEdit(e) ==
    /\ {"section", "original_text", "suggested_text"} \subseteq DOMAIN e
    /\ e["section"] = "summary"

IsExperienceEdit(e) ==
    /\ {"section", "entry_index", "original_text", "suggested_text"} \subseteq DOMAIN e
    /\ e["section"] = "experience"
    /\ "int" \in DOMAIN e["entry_index"]

\* An experience edit whose entry_index is one of 0..len(experience)-1.
InRange(e, profile) ==
    /\ IsExperienceEdit(e)
    /\ e["entry_index"]["int"] \in 0..(Len(profile["experience"]) - 1)

\* C1: apply_ai_edits leaves the profile passed in unchanged: during and after
\* the call the argument's summary and every entry's accomplishments are what
\* they were when the call started, also when edits were applied to the result.
C1_ArgumentNotMutated ==
    InApply => Argument = before

C1_Witness ==
    /\ pc = "apply_returned"
    /\ WorkingCopy["summary"] # before["summary"]
    /\ \E k \in 1..Len(before["experience"]) :
          WorkingCopy["experience"][k] # before["experience"][k]
    /\ Argument = before

\* C2: an edit of section "summary" replaces the summary by suggested_text if
\* and only if the summary held when the edit is processed equals
\* original_text; otherwise the summary is left as it was.
C2_SummaryReplacedIffEqual ==
    [][(Iteration /\ IsSummaryEdit(edit')) =>
          IF WorkingCopy["summary"] = edit'["original_text"]
          THEN /\ WorkingCopy'["summary"] = edit'["suggested_text"]
               /\ printed' = "summary"
          ELSE /\ WorkingCopy'["summary"] = WorkingCopy["summary"]
               /\ printed' # "summary"]_vars

C2_Witness ==
    /\ pc = "apply_loop"
    /\ n_edits = 1
    /\ IsSummaryEdit(edit)
    /\ edit["original_text"] = before["summary"]
    /\ edit["suggested_text"] # before["summary"]
    /\ WorkingCopy["summary"] = edit["suggested_text"]
    /\ printed = "summary"

\* l with its first element equal to x replaced by y.
FirstReplaced(l, x, y) ==
    LET first == CHOOSE i \in 1..Len(l) : l[i] = x /\ \A j \in 1..(i - 1) : l[j] # x
    IN  [i \in 1..Len(l) |-> IF i = first THEN y ELSE l[i]]

\* C3: an experience edit with a valid entry_index changes the accomplishments
\* of that entry only when some element equals original_text, and then exactly
\* the first such element becomes suggested_text; later duplicates, all other
\* elements, the other entries and the summary keep their value and place.
C3_FirstOccurrenceReplaced ==
    [][(Iteration /\ InRange(edit', WorkingCopy)) =>
          LET k == edit'["entry_index"]["int"] + 1
              old == WorkingCopy["experience"][k]
          IN  /\ WorkingCopy'["summary"] = WorkingCopy["summary"]
              /\ \A j \in 1..Len(WorkingCopy["experience"]) :
                    j # k => WorkingCopy'["experience"][j] = WorkingCopy["experience"][j]
              /\ WorkingCopy'["experience"][k] =
                    IF \E i \in 1..Len(old) : old[i] = edit'["original_text"]
                    THEN FirstReplaced(old, edit'["original_text"], edit'["suggested_text"])
                    ELSE old]_vars

C3_Witness ==
    /\ pc = "apply_loop"
    /\ n_edits = 1
    /\ InRange(edit, WorkingCopy)
    /\ edit["entry_index"]["int"] = 0
    /\ edit["original_text"] = "A"
    /\ edit["suggested_text"] = "C"
    /\ before["experience"][1] = <<"B", "A", "A">>
    /\ WorkingCopy["experience"][1] = <<"B", "C", "A">>

\* C4: an experience edit whose entry_index is an integer outside
\* 0..len(experience)-1, negative values included, is skipped: it changes no
\* accomplishment of any entry.
C4_OutOfRangeSkipped ==
    [][(Iteration /\ IsExperienceEdit(edit') /\ ~InRange(edit', WorkingCopy)) =>
          WorkingCopy'["experience"] = WorkingCopy["experience"]]_vars

\* C5: an edit record that lacks one of its keys is skipped: the profile is
\* left as if the edit had not been in the list, whichever key is missing.
C5_MissingKeySkipped ==
    [][(Iteration /\ ~(Keys \subseteq DOMAIN edit')) => WorkingCopy' = WorkingCopy]_vars

\* C6: skipping an edit is never fatal: whatever the edit (unknown section,
\* mismatching original_text, missing key, entry_index out of range or not an
\* integer), the iteration ends inside the loop, so the edits that follow are
\* processed and the call returns a profile.
C6_SkipNeverFatal ==
    [][Iteration => pc' = "apply_loop"]_vars

\* The same entry is read by both edits.
SameEntry(e1, e2, profile) ==
    /\ InRange(e1, profile)
    /\ InRange(e2, profile)
    /\ e1["entry_index"] = e2["entry_index"]

\* C7: edits are processed in list order against the state the earlier edits
\* left.  After an edit that was applied to a location, a following edit for
\* the same location whose original_text is what the earlier edit wrote is
\* applied, and the location ends with its suggested_text; one whose
\* original_text is something else (such as the text the earlier edit
\* replaced) is not applied.
C7_LaterEditSeesEarlier ==
    [][Iteration =>
          /\ (IsSummaryEdit(edit) /\ printed = "summary" /\ IsSummaryEdit(edit')) =>
                IF edit'["original_text"] = edit["suggested_text"]
                THEN WorkingCopy'["summary"] = edit'["suggested_text"] /\ printed' = "summary"
                ELSE WorkingCopy'["summary"] = edit["suggested_text"] /\ printed' # "summary"
          /\ (/\ printed = "accomplishment"
              /\ SameEntry(edit, edit', WorkingCopy)
              /\ edit'["original_text"] = edit["suggested_text"]) =>
                LET k == edit["entry_index"]["int"] + 1
                    old == WorkingCopy["experience"][k]
                    slots == {i \in 1..Len(old) : old[i] = edit["suggested_text"]}
                IN  Cardinality(slots) = 1 =>
                       \A i \in slots : WorkingCopy'["experience"][k][i] = edit'["suggested_text"]
       ]_vars

C7_Witness ==
    /\ pc = "apply_loop"
    /\ n_edits = 2
    /\ IsSummaryEdit(edit)
    /\ printed = "summary"
    /\ before["summary"] = "A"
    /\ edit["original_text"] = "B"
    /\ edit["suggested_text"] = "C"
    /\ WorkingCopy["summary"] = "C"

-----------------------------------------------------------------------------
(* build_experience_section: what is embedded for each field *)

HasExperience == pc = "build_returned" /\ ~no_experience(data)

\* The parts of block k of the output that hold the four fields and line j.
TitlePart(k) == UpTo(PartAfter(experience_str, ItemHead, k), AfterTitle)
DatesPart(k) == Between(PartAfter(experience_str, ItemHead, k), AfterTitle, AfterDates)
CompanyPart(k) == Between(PartAfter(experience_str, ItemHead, k), AfterDates, AfterCompany)
LocationPart(k) == Between(PartAfter(experience_str, ItemHead, k), AfterCompany, AfterLocation)
AccPart(k, j) == UpTo(PartAfter(PartAfter(experience_str, ItemHead, k), AccItem, j), AccItemEnd)

\* C18 as stated: every title, company, dates, location and accomplishment is
\* embedded exactly as sanitize_for_latex returns it, also when it holds a
\* backslash or a backslash followed by a percent sign.
C18_EmbeddedAsSanitized ==
    HasExperience =>
        \A k \in 1..Len(data["experience"]) :
            LET entry == data["experience"][k]
            IN  /\ TitlePart(k) = sanitize_for_latex(get(entry, "title"))
                /\ DatesPart(k) = sanitize_for_latex(get(entry, "dates"))
                /\ CompanyPart(k) = sanitize_for_latex(get(entry, "company"))
                /\ LocationPart(k) = sanitize_for_latex(get(entry, "location"))
                /\ \A j \in 1..Len(AccsOf(entry)) :
                      AccPart(k, j) = sanitize_for_latex(AccsOf(entry)[j])

\* A title character by character: a backslash gives "/", any other character
\* its escape sequence or itself.
TitleEmbedding(t) ==
    Flatten([i \in 1..Len(t) |-> IF t[i] = BS THEN <<"/">> ELSE EscapeOf(t[i])])

\* An accomplishment from the left: a backslash directly followed by a percent
\* sign gives the escape of the percent sign alone.
RECURSIVE AccEmbedding(_, _)
AccEmbedding(a, i) ==
    IF i > Len(a) THEN <<>>
    ELSE IF a[i] = BS /\ i < Len(a) /\ a[i + 1] = "%"
         THEN conv["%"] \o AccEmbedding(a, i + 2)
         ELSE EscapeOf(a[i]) \o AccEmbedding(a, i + 1)

\* C18 amended: dates, company and location are embedded exactly as
\* sanitize_for_latex returns them; a title is embedded as sanitized except
\* that every backslash of it appears as "/", and an accomplishment as
\* sanitized except that a backslash directly followed by a percent sign
\* appears as the escaped percent sign alone.  A field with no backslash is
\* embedded exactly as sanitize_for_latex returns it.
C18_EmbeddedAsSanitizedButBackslash ==
    HasExperience =>
        \A k \in 1..Len(data["experience"]) :
            LET entry == data["experience"][k]
                noBS(t) == \A i \in 1..Len(t) : t[i] # BS
            IN  /\ TitlePart(k) = TitleEmbedding(get(entry, "title"))
                /\ noBS(get(entry, "title")) =>
                      TitlePart(k) = sanitize_for_latex(get(entry, "title"))
                /\ DatesPart(k) = sanitize_for_latex(get(entry, "dates"))
                /\ CompanyPart(k) = sanitize_for_latex(get(entry, "company"))
                /\ LocationPart(k) = sanitize_for_latex(get(entry, "location"))
                /\ \A j \in 1..Len(AccsOf(entry)) :
                      /\ AccPart(k, j) = AccEmbedding(AccsOf(entry)[j], 1)
                      /\ noBS(AccsOf(entry)[j]) =>
                            AccPart(k, j) = sanitize_for_latex(AccsOf(entry)[j])

C18_Witness ==
    /\ HasExperience
    /\ "title" \in DOMAIN data["experience"][1]
    /\ data["experience"][1]["title"] = <<BS, "b">>
    /\ TitlePart(1) = <<"/", "b">>
    /\ AccsOf(data["experience"][1]) = <<<<BS, "%">>>>
    /\ AccPart(1, 1) = <<BS, "%">>
    /\ CompanyPart(1) = <<BS, "&">>

-----------------------------------------------------------------------------
(* The document calls: properties *)

Tex == <<filename_base, ".tex">>
Aux == <<filename_base, ".aux">>
Log == <<filename_base, ".log">>
Pdf == <<filename_base, ".pdf">>
Docx == <<filename_base, ".docx">>

\* The positions of events that hold ev.
Times(ev) == {i \in 1..Len(events) : events[i] = ev}

Invocations == Cardinality(Times("pdflatex"))

InWorkflow == pc \in {"workflow_returned", "workflow_raised"}

PdfRequested == "PDF (via LaTeX)" \in env.format_choices /\ env.template_choice # ""

\* C11: when the template file does not exist, generate_resume_latex returns
\* no document source and copies no photo, and generation_workflow then
\* neither writes the scratch file nor invokes the typesetting tool.
C11_MissingTemplateNoOutput ==
    /\ pc \in {"generate_returned", "generate_raised"} /\ ~env.template_exists =>
          /\ pc = "generate_returned"
          /\ result = None
          /\ fs = {}
          /\ events = <<>>
    /\ InWorkflow /\ ~env.template_exists =>
          /\ pc = "workflow_returned"
          /\ PhotoCopy \notin fs
          /\ Tex \notin fs
          /\ Times("open .tex") = {}
          /\ Invocations = 0
          /\ Times("shutil.copy") = {}

C11_Witness ==
    /\ pc = "workflow_returned"
    /\ ~env.template_exists
    /\ PdfRequested
    /\ env.which /\ env.write_ok /\ env.photo_exists
    /\ data = OrdinaryProfile
    /\ env.template = ShortTemplate
    /\ Docx \in fs
    /\ Tex \notin fs

\* C13: when the typesetting tool is not found, compile_latex_to_pdf returns
\* the skip result, writes no scratch file, invokes nothing and raises
\* nothing, and generation_workflow with both formats selected still
\* performs the DOCX generation after it.
C13_ToolAbsentSkips ==
    /\ pc = "compile_returned" /\ ~env.which =>
          /\ result = None
          /\ raised = ""
          /\ fs = {}
          /\ events = <<>>
    /\ InWorkflow /\ ~env.which /\ DOMAIN data # {}
          /\ env.format_choices = {"PDF (via LaTeX)", "Word (DOCX)"}
          /\ raised = "" =>
          /\ pc = "workflow_returned"
          /\ Tex \notin fs
          /\ Times("open .tex") = {}
          /\ Invocations = 0
          /\ Len(events) > 0 /\ events[Len(events)] = "generate_docx_resume"
          /\ env.docx_template_exists => Docx \in fs

C13_Witness ==
    /\ pc = "workflow_returned"
    /\ ~env.which
    /\ env.format_choices = {"PDF (via LaTeX)", "Word (DOCX)"}
    /\ env.template_choice = "Modern"
    /\ env.template_exists /\ env.template = ShortTemplate
    /\ data = OrdinaryProfile
    /\ events = <<"shutil.copy", "generate_docx_resume">>
    /\ Docx \in fs

\* C14: within one call of compile_latex_to_pdf the tool is invoked at most
\* twice, the scratch source is written before the first invocation, and the
\* file name is returned only after exactly two invocations that both exited
\* zero; a call in which an invocation exits non-zero returns None.
C14_TwoRunsThenFileName ==
    pc = "compile_returned" =>
        /\ Invocations <= 2
        /\ Invocations > 0 =>
              /\ Tex \in fs
              /\ \A i \in Times("pdflatex") : \E j \in Times("open .tex") : j < i
        /\ result # None =>
              /\ result = Pdf
              /\ Invocations = 2
              /\ env.exit1 = 0 /\ env.exit2 = 0
        /\ Invocations > 0 /\ (env.exit1 # 0 \/ (Invocations = 2 /\ env.exit2 # 0)) =>
              result = None
        /\ Invocations = 1 => env.exit1 # 0

C14_Witness ==
    /\ pc = "compile_returned"
    /\ result = Pdf
    /\ events = <<"open .tex", "pdflatex", "pdflatex", "os.remove .aux", "os.remove .log">>
    /\ fs = {Tex, Pdf}

\* C15: when an invocation of the tool exits non-zero, the log file it
\* produced still exists after compile_latex_to_pdf has returned failure.
C15_LogRetainedOnFailure ==
    pc = "compile_returned" /\ Invocations > 0 /\ result = None => Log \in fs

-----------------------------------------------------------------------------
(* generate_resume_latex: placeholder tokens in the output *)

\* The characters of the placeholder names.
NameChars ==
    [n \in PlaceholderNames |->
        CASE n = "FULL_NAME" -> <<"F", "U", "L", "L", "_", "N", "A", "M", "E">>
          [] n = "EMAIL" -> EMAIL
          [] n = "PHONE" -> PHONE
          [] n = "LINKEDIN" -> <<"L", "I", "N", "K", "E", "D", "I", "N">>
          [] n = "LINKEDIN_DISPLAY" ->
                <<"L", "I", "N", "K", "E", "D", "I", "N", "_", "D", "I", "S", "P", "L", "A", "Y">>
          [] n = "SUMMARY_SECTION" ->
                <<"S", "U", "M", "M", "A", "R", "Y", "_", "S", "E", "C", "T", "I", "O", "N">>
          [] n = "EXPERIENCE_SECTION" ->
                <<"E", "X", "P", "E", "R", "I", "E", "N", "C", "E", "_", "S", "E", "C", "T", "I", "O", "N">>
          [] n = "EDUCATION_SECTION" ->
                <<"E", "D", "U", "C", "A", "T", "I", "O", "N", "_", "S", "E", "C", "T", "I", "O", "N">>
          [] n = "SKILLS_SECTION" ->
                <<"S", "K", "I", "L", "L", "S", "_", "S", "E", "C", "T", "I", "O", "N">>
          [] n = "LANGUAGES_SECTION" ->
                <<"L", "A", "N", "G", "U", "A", "G", "E", "S", "_", "S", "E", "C", "T", "I", "O", "N">>
          [] n = "PHOTO_BLOCK" -> <<"P", "H", "O", "T", "O", "_", "B", "L", "O", "C", "K">>]

\* The pieces whose last character is "{" and those whose first is "}".
EndsWithOpen == {"{", AccItem, PhotoHead, MinipageBegin}
StartsWithClose ==
    {"}", AccItemEnd, AfterTitle, AfterDates, AfterCompany, AfterLocation, PhotoEnd}

\* The token {n} occurs in the text at piece i.
TokenAt(out, i, n) ==
    \/ out[i] = Field(n)
    \/ /\ out[i] \in EndsWithOpen
       /\ StartsWithAt(out, i + 1, NameChars[n])
       /\ i + Len(NameChars[n]) + 1 <= Len(out)
       /\ out[i + Len(NameChars[n]) + 1] \in StartsWithClose

HasToken(out) == \E n \in PlaceholderNames, i \in 1..Len(out) : TokenAt(out, i, n)

\* t holds the characters of a placeholder name.
Spells(t) ==
    \E n \in PlaceholderNames, i \in 1..Len(t) : StartsWithAt(t, i, NameChars[n])

\* Every text of the profile.
TextsOfEntries(d, key, fields) ==
    IF key \in DOMAIN d
    THEN {get(d[key][k], f) : k \in 1..Len(d[key]), f \in fields} ELSE {}
TextsOfList(d, key) ==
    IF key \in DOMAIN d THEN {d[key][k] : k \in 1..Len(d[key])} ELSE {}
ProfileTexts(d) ==
    {get(contact_of(d), f) : f \in {"full_name", "email", "phone", "linkedin", "photo_path"}}
        \cup {get(d, "summary")}
        \cup TextsOfEntries(d, "experience", {"title", "dates", "company", "location"})
        \cup UNION {TextsOfList(d["experience"][k], "accomplishments") :
                        k \in 1..Len(get(d, "experience"))}
        \cup TextsOfEntries(d, "education", {"institution", "dates", "degree", "location"})
        \cup TextsOfList(get(d, "skills"), "technical")
        \cup TextsOfList(get(d, "skills"), "professional")
        \cup TextsOfList(d, "languages")

KnownNamesOnly(template) ==
    \A i \in 1..Len(template) :
        IsField(template[i]) => FieldName(template[i]) \in PlaceholderNames

Generated == pc = "generate_returned" /\ env.template_exists

-----------------------------------------------------------------------------
(* The AI workflows and the tracker: properties *)

\* Not valid JSON, or valid JSON that is no object with both keys.
Malformed(r) ==
    \/ r.form \in {"garbage", "array"}
    \/ r.form = "object" /\ ~({"analysis", "suggested_edits"} \subseteq DOMAIN r.members)

\* A workflow has put a job description to the AI and got a response.
Answered ==
    /\ pc \in {"tailor_returned", "tailor_raised", "batch_loop", "batch_raised"}
    /\ Times("analyze_job_description") # {}
    /\ env.ai.form # "empty"

\* C16: after a malformed AI response (no JSON, or JSON that is no object with
\* both keys analysis and suggested_edits) apply_ai_edits was not called, no
\* document was generated, the tracker was not written and no exception left
\* the workflow.
C16_MalformedNeverApplied ==
    Answered /\ Malformed(env.ai) =>
        /\ Times("apply_ai_edits") = {}
        /\ fs = {}
        /\ Invocations = 0
        /\ Times("generate_docx_resume") = {}
        /\ Times("save_data") = {}
        /\ raised = ""
        /\ pc \in {"tailor_returned", "batch_loop"}

\* The events of the next state that hold ev.
TimesNext(ev) == {i \in 1..Len(events') : events'[i] = ev}

\* A step that is one iteration of the batch loop.
BatchStep == pc = "batch_loop" /\ todo # <<>> /\ todo' = Tail(todo)

\* The applications the selected string stands for.
Selected(i) == app_str_of(applications[i]) = Head(todo)

\* What keeps the document from being produced.
NoDocument(e) ==
    \/ e.job_desc = ""
    \/ e.ai.form = "empty"
    \/ ~e.template_exists
    \/ ~e.which
    \/ e.exit1 # 0
    \/ e.exit2 # 0

\* C17: in an iteration of the batch loop a resume_version is set, and the
\* tracker saved, only when compile_latex_to_pdf returned a file name in that
\* iteration, and it is then set to that file name for an application with the
\* selected company and job title; with an empty job description, a failed AI
\* call, a missing template, an absent tool or a failed compilation nothing
\* in the tracker changes.
C17_WriteBackOnlyAfterDocument ==
    [][BatchStep =>
          /\ result' = None =>
                /\ tracker' = tracker
                /\ applications' = applications
                /\ TimesNext("save_data") = {}
          /\ result' # None =>
                /\ Cardinality({i \in 1..Len(events') : events'[i] = "pdflatex"}) = 2
                /\ env'.exit1 = 0 /\ env'.exit2 = 0
                /\ events'[Len(events')] = "save_data"
                /\ tracker' = applications'
                /\ \E i \in 1..Len(applications) :
                      /\ Selected(i)
                      /\ applications' =
                            [applications EXCEPT ![i].resume_version = file_name(result')]
          /\ NoDocument(env') => result' = None /\ tracker' = tracker]_vars

C17_Witness ==
    /\ pc = "batch_loop"
    /\ result = <<"resume_for_c1", ".pdf">>
    /\ events[Len(events)] = "save_data"
    /\ Len(tracker) = 2
    /\ tracker[1].resume_version = "resume_for_c1.pdf"
    /\ tracker[2].resume_version = ""
    /\ Pdf \in fs

StatusesValid == \A i \in 1..Len(tracker) : tracker[i].status \in Statuses

\* C20: starting from an empty tracker, after any sequence of
\* add_new_application, Update Status and batch_resume_workflow every stored
\* status is one of the five; a new application starts as Applied, and an
\* Update Status whose prompt is cancelled leaves the stored statuses and the
\* tracker file unchanged.
C20_StatusAlwaysValid ==
    /\ []StatusesValid
    /\ [][pc = "menu" /\ Len(tracker') = Len(tracker) + 1 =>
             /\ tracker'[Len(tracker')].status = "Applied"
             /\ \A i \in 1..Len(tracker) : tracker'[i] = tracker[i]]_vars
    /\ [][pc = "menu" /\ pc' = "menu" /\ Len(tracker') = Len(tracker) =>
             /\ env'.new_status = "" => tracker' = tracker /\ events' = <<>>
             /\ env'.new_status # "" =>
                   /\ events' = <<"save_data">>
                   /\ \E i \in 1..Len(tracker) :
                         tracker' = [tracker EXCEPT ![i].status = env'.new_status]]_vars
    /\ [][pc = "batch_loop" =>
             \A i \in 1..Len(tracker) : tracker'[i].status = tracker[i].status]_vars

C20_Witness ==
    /\ pc = "menu"
    /\ Len(tracker) = 2
    /\ tracker[1].status = "Offer Received"
    /\ tracker[2].status = "Applied"
    /\ tracker[2].resume_version # ""
    /\ env.new_status = ""
    /\ n_ops = 4

-----------------------------------------------------------------------------
(* apply_ai_edits: what the result keeps *)

\* Everything of the profile at address ref but the summary text and the
\* accomplishment texts: its keys, the other sections, and of every entry the
\* other fields and the number of accomplishments.
FrameOf(ds, ls, ref) ==
    [keys |-> DOMAIN ds[ref],
     rest |-> [k \in DOMAIN ds[ref] \ {"summary", "experience"} |-> ds[ref][k]],
     experience |-> [k \in 1..Len(ds[ref]["experience"]) |->
                        [fields |-> [f \in DOMAIN ds[ref]["experience"][k] \ {"accomplishments"} |->
                                        ds[ref]["experience"][k][f]],
                         n_accomplishments |->
                            Len(ls[ds[ref]["experience"][k]["accomplishments"]])]]]

\* The same of the profile the call was given, from its value at the call.
FrameBefore ==
    [keys |-> {"summary", "experience", "contact", "education", "skills", "languages"},
     rest |-> [contact |-> "contact", education |-> "education",
               skills |-> "skills", languages |-> "languages"],
     experience |-> [k \in 1..Len(before["experience"]) |->
                        [fields |-> [title |-> "job", company |-> "company",
                                     location |-> "location", dates |-> "dates"],
                         n_accomplishments |-> Len(before["experience"][k])]]]

\* C21: apply_ai_edits changes nothing but the summary text and single
\* accomplishment texts: for every edit list, also with edits whose field
\* names something other than accomplishments, the result has the contact,
\* education, skills and languages of the input, as many experience entries
\* with the same title, company, location and dates, and as many
\* accomplishments in each entry.
C21_OnlyTextsChange ==
    InApply => FrameOf(dicts, lists, editable_resume) = FrameBefore

C21_Witness ==
    /\ pc = "apply_returned"
    /\ n_edits = 2
    /\ "field" \in DOMAIN edit /\ edit["field"] = "title"
    /\ printed = "accomplishment"
    /\ WorkingCopy # before
    /\ WorkingCopy["summary"] # before["summary"]

-----------------------------------------------------------------------------
(* batch_resume_workflow: the base profile and the record written *)

InBatch == pc \in {"batch_loop", "batch_raised"}

SelectedUnprocessed ==
    {unprocessed_apps[k] : k \in {j \in 1..Len(unprocessed_apps) :
                                     Selected(unprocessed_apps[j])}}

\* C23: the resume_version write-back of batch_resume_workflow changes the
\* application that was selected for processing: also when the tracker holds
\* several applications with the same company and job title, some with
\* another status or a resume_version already set, the record whose
\* resume_version is set is a selected unprocessed one, and no other record's
\* resume_version is overwritten.
C23_WriteBackToSelected ==
    [][BatchStep /\ result' # None =>
          \E i \in SelectedUnprocessed :
              applications' = [applications EXCEPT
                                  ![i].resume_version = file_name(result')]]_vars

-----------------------------------------------------------------------------
(* check_and_add_contact: properties *)

\* Equal but for the case of the letters.
SameIgnoringCase(s, t) == lower(s) = lower(t)

\* The log holds a contact with this name and company, ignoring case.
Present(log, name, company) ==
    \E i \in 1..Len(log) :
        SameIgnoringCase(log[i].name, name) /\ SameIgnoringCase(log[i].company, company)

NoDuplicateContact ==
    \A i, j \in 1..Len(contacts) :
        i # j => ~Present(<<contacts[i]>>, contacts[j].name, contacts[j].company)

NoNamelessContact ==
    \A i \in 1..Len(contacts) :
        /\ contacts[i].name \notin {<<>>, None}
        /\ ~SameIgnoringCase(contacts[i].name, hiring_team)

ContactsValid == NoDuplicateContact /\ NoNamelessContact

\* A step in which check_and_add_contact is called: from the cover letter
\* workflow, or from add_new_application with a contact person.
ContactStep ==
    \/ n_calls' = n_calls + 1
    \/ pc = "menu" /\ Len(tracker') = Len(tracker) + 1 /\ env'.contact_name # <<>>

\* C24: check_and_add_contact never adds a duplicate: after any sequence of
\* calls that starts from an empty networking log, the log holds no two
\* contacts whose name and company are equal ignoring case and no contact
\* with an empty name or with the name 'hiring team' in any letter case, and
\* a call that finds the contact in the log, or whose confirmation is
\* declined, leaves the log file as it was.
C24_NeverAddsDuplicate ==
    /\ []ContactsValid
    /\ [][ContactStep =>
            /\ (Present(contacts, env'.contact_name, env'.contact_company)
                  \/ ~env'.confirm) =>
                  /\ contacts' = contacts
                  /\ \A k \in 1..Len(events') : events'[k] # "save_contacts"
            /\ contacts' # contacts =>
                  contacts' = Append(contacts, new_contact(env'.contact_name,
                                                           env'.contact_company, <<>>))]_vars

C24_Witness ==
    /\ pc = "contact_returned"
    /\ n_calls = 3
    /\ Len(contacts) = 2
    /\ contacts[1].name = <<"a">> /\ contacts[1].company = <<"c">>
    /\ contacts[2].name = <<"b">> /\ contacts[2].company = <<"C">>
    /\ env.contact_name = <<"A">> /\ env.contact_company = <<"C">>
    /\ env.confirm
    /\ events = <<"load_data">>

=============================================================================
